---- MODULE Spec2Model ----
(***************************************************************************)
(* A model of the xlsx writer of psmithuk/xlsx (xlsx.go): the buffered     *)
(* Sheet (AppendRow, SaveToWriter), the streaming WorkbookWriter and       *)
(* SheetWriter, the zip archive they write to, and the pure helpers        *)
(* (colName, CellIndex, OADate, html.EscapeString, strconv.Itoa).          *)
(*                                                                         *)
(* Go strings are TLA+ strings.  uint64 values are kept as residues modulo *)
(* 2^64; the residue 2^64-1 is written -1 (two's complement reading), the  *)
(* only wrapped value the writer can produce within the bounds.            *)
(***************************************************************************)
EXTENDS Integers, Sequences, FiniteSets, TLC

(***************************************************************************)
(* Bounds of the model.                                                    *)
(***************************************************************************)
MaxSheets == 2      \* SheetWriters created per WorkbookWriter
MaxRows == 2        \* rows and rewritten headers accepted by the SheetWriter / rows of one Sheet
MaxBookRows == 1    \* rows and rewritten headers accepted by the SheetWriters of one workbook
MaxBatch == 2       \* rows per WriteRows call
MaxMerges == 1      \* merge ranges a SheetWriter has recorded when WriteRows is last called on it
MaxHeaders == 1     \* workbook header runs before a further WriteHeader or Close
MaxFaults == 1      \* failures of the sink (rejected creations and writes) in one run
MaxCol == 800       \* columns 0..MaxCol are named by CellIndex (ZZ is 701, AAA is 702)
MaxCellRow == 2     \* rows 0..MaxCellRow are numbered by CellIndex
MaxDateStep == 70   \* times of day 0, 20, 40, ... minutes up to 20 * MaxDateStep given to OADate

(***************************************************************************)
(* Pure helpers.                                                           *)
(***************************************************************************)
Digits == "0123456789"
Letters == "ABCDEFGHIJKLMNOPQRSTUVWXYZ"

\* strconv.Itoa / fmt "%d" for a non-negative value.
RECURSIVE Itoa(_)
Itoa(n) ==
    IF n < 10 THEN SubSeq(Digits, n + 1, n + 1)
    ELSE Itoa(n \div 10) \o SubSeq(Digits, (n % 10) + 1, (n % 10) + 1)

\* uint64 subtraction of one: 0 - 1 wraps to 2^64-1, written -1.
Dec64(n) == IF n = 0 THEN -1 ELSE n - 1

\* The loop of colName without "n -= 1": base 26 with a zero digit.
RECURSIVE colNameLoopZeroDigit(_, _)
colNameLoopZeroDigit(n, s) ==
    IF n = 0 THEN s
    ELSE colNameLoopZeroDigit(n \div 26, SubSeq(Letters, (n % 26) + 1, (n % 26) + 1) \o s)

\* colName: the loop of xlsx.go, one iteration per call; n is the value
\* after "n += 1" and the loop runs while n > 0 (unsigned: n /= 0).
RECURSIVE colNameLoop(_, _)
colNameLoop(n, s) ==
    IF n = 0 THEN s
    ELSE LET m == n - 1
         IN colNameLoop(m \div 26, SubSeq(Letters, (m % 26) + 1, (m % 26) + 1) \o s)

colName(n) == colNameLoop(n + 1, "")

\* CellIndex returns the column name and the one-based row number.
CellIndex(x, y) == <<colName(x), y + 1>>

\* html.EscapeString: & < > " ' are replaced, everything else is kept.
EscapeChar(c) ==
    CASE c = "&" -> "&amp;"
      [] c = "<" -> "&lt;"
      [] c = ">" -> "&gt;"
      [] c = "\"" -> "&#34;"
      [] c = "'" -> "&#39;"
      [] OTHER -> c

RECURSIVE EscapeString(_)
EscapeString(s) ==
    IF Len(s) = 0 THEN ""
    ELSE EscapeChar(SubSeq(s, 1, 1)) \o EscapeString(SubSeq(s, 2, Len(s)))

(***************************************************************************)
(* time.Parse(time.RFC3339, v) and OADate.  A parsed time is the record    *)
(* [day, sec, off]: whole days from 1899-12-30T00:00:00Z to the instant,   *)
(* the second of the UTC day, and the zone offset in seconds.              *)
(***************************************************************************)
SecPerDay == 86400

\* The timestamps the model feeds to the writer, with their parse results;
\* any other string is rejected by time.Parse.
ParseTable ==
    [ v \in {"1970-01-01T00:00:00Z", "1970-01-01T12:20:00Z",
             "2014-12-20T00:00:00Z", "1970-01-01T00:00:00+01:00"} |->
        CASE v = "1970-01-01T00:00:00Z" -> [day |-> 25569, sec |-> 0, off |-> 0]
          [] v = "1970-01-01T12:20:00Z" -> [day |-> 25569, sec |-> 44400, off |-> 0]
          [] v = "2014-12-20T00:00:00Z" -> [day |-> 41993, sec |-> 0, off |-> 0]
          [] v = "1970-01-01T00:00:00+01:00" -> [day |-> 25568, sec |-> 82800, off |-> 3600] ]

ParseOk(v) == v \in DOMAIN ParseTable
ParseRFC3339(v) == ParseTable[v]

\* fmt "%06d" of the fraction digits.
Pad6(n) == SubSeq("000000", 1, 6 - Len(Itoa(n))) \o Itoa(n)

\* OADate: v is day + sec/86400; Hour, Minute and Second are read in the
\* zone of d; "%d" of int64(v) truncates, "%f" rounds to 6 decimals.
OADate(d) ==
    LET local == (d.sec + d.off) % SecPerDay
        \* sec / 86400 in millionths, rounded to nearest: sec*10^6/86400 = sec*625/54
        micro == (d.sec * 625 * 2 + 54) \div (54 * 2)
    IN IF local = 0
       THEN Itoa(d.day)
       ELSE IF micro = 1000000 THEN Itoa(d.day + 1) \o "." \o Pad6(0)
            ELSE Itoa(d.day) \o "." \o Pad6(micro)

(***************************************************************************)
(* Cells, rows, columns, sheets.                                           *)
(***************************************************************************)
CellTypeNumber == 0
CellTypeString == 1
CellTypeDatetime == 2
CellTypeInlineString == 3

Cell(t, v, cs) == [Type |-> t, Value |-> v, Colspan |-> cs]
ZeroCell == Cell(CellTypeNumber, "", 0)
Column(n, w) == [Name |-> n, Width |-> w]

\* NewSheetWithColumns: title "Data", no rows, empty shared-string table.
\* sharedStringMap is a function from the escaped strings to their index.
NewSheetWithColumns(c) ==
    [Title |-> "Data", columns |-> c, rows |-> <<>>,
     sharedStringMap |-> <<>>, sharedStrings |-> <<>>,
     DocumentInfo |-> [CreatedBy |-> "xlsx.go", ModifiedBy |-> "xlsx.go"]]

\* Sheet.NewRow: one zero-valued cell per column.
NewRow(s) == [n \in 1..Len(s.columns) |-> ZeroCell]

\* AppendCells without the lookup in sharedStringMap: every String cell
\* gets a new entry.
RECURSIVE AppendCellsNoLookup(_, _, _, _)
AppendCellsNoLookup(s, r, n, cells) ==
    IF n > Len(r) THEN [s |-> s, cells |-> cells]
    ELSE LET c == r[n] IN
         IF c.Type = CellTypeString
         THEN LET v == EscapeString(c.Value)
                  i == Len(s.sharedStrings)
                  s1 == [s EXCEPT !.sharedStringMap = (v :> i) @@ @,
                                  !.sharedStrings = Append(@, v)]
              IN AppendCellsNoLookup(s1, r, n + 1,
                                     Append(cells, Cell(c.Type, Itoa(i), 0)))
         ELSE AppendCellsNoLookup(s, r, n + 1, Append(cells, Cell(c.Type, c.Value, 0)))

\* AppendCells resolving Datetime cells at append time, as the revisions
\* before did: a value that parses is replaced by its OADate.
RECURSIVE AppendCellsResolving(_, _, _, _)
AppendCellsResolving(s, r, n, cells) ==
    IF n > Len(r) THEN [s |-> s, cells |-> cells]
    ELSE LET c == r[n] IN
         IF c.Type = CellTypeString
         THEN LET v == EscapeString(c.Value)
                  exists == v \in DOMAIN s.sharedStringMap
                  i == IF exists THEN s.sharedStringMap[v] ELSE Len(s.sharedStrings)
                  s1 == IF exists THEN s
                        ELSE [s EXCEPT !.sharedStringMap = @ @@ (v :> i),
                                       !.sharedStrings = Append(@, v)]
              IN AppendCellsResolving(s1, r, n + 1,
                                      Append(cells, Cell(c.Type, Itoa(i), 0)))
         ELSE IF c.Type = CellTypeDatetime /\ ParseOk(c.Value)
         THEN AppendCellsResolving(s, r, n + 1,
                                   Append(cells, Cell(c.Type, OADate(ParseRFC3339(c.Value)), 0)))
         ELSE AppendCellsResolving(s, r, n + 1, Append(cells, Cell(c.Type, c.Value, 0)))

\* Sheet.AppendRow, the loop over the cells of r: cell n of the new row.
\* Only Type and Value are copied; a String cell is escaped, interned and
\* replaced by its index.
RECURSIVE AppendCells(_, _, _, _)
AppendCells(s, r, n, cells) ==
    IF n > Len(r) THEN [s |-> s, cells |-> cells]
    ELSE LET c == r[n] IN
         IF c.Type = CellTypeString
         THEN LET v == EscapeString(c.Value)
                  exists == v \in DOMAIN s.sharedStringMap
                  i == IF exists THEN s.sharedStringMap[v] ELSE Len(s.sharedStrings)
                  s1 == IF exists THEN s
                        ELSE [s EXCEPT !.sharedStringMap = @ @@ (v :> i),
                                       !.sharedStrings = Append(@, v)]
              IN AppendCells(s1, r, n + 1,
                             Append(cells, Cell(c.Type, Itoa(i), 0)))
         ELSE AppendCells(s, r, n + 1, Append(cells, Cell(c.Type, c.Value, 0)))

\* AppendRow checking the cell count after the cells were interned.
AppendRowLateCheck(s, r) ==
    LET a == AppendCells(s, r, 1, <<>>)
    IN IF Len(r) # Len(s.columns)
       THEN [s |-> a.s, res |-> "error"]
       ELSE [s |-> [a.s EXCEPT !.rows = Append(@, a.cells)], res |-> "nil"]

\* Sheet.AppendRow: the sheet after the call and the error it returns.
AppendRow(s, r) ==
    IF Len(r) # Len(s.columns)
    THEN [s |-> s, res |-> "error"]
    ELSE LET a == AppendCells(s, r, 1, <<>>)
         IN [s |-> [a.s EXCEPT !.rows = Append(@, a.cells)], res |-> "nil"]

\* Sheet.SharedStrings
SharedStrings(s) == s.sharedStrings

(***************************************************************************)
(* The archive (zip.Writer).  An entry is [name, data, closed]: data is    *)
(* the sequence of completed writes, closed is set when a later entry is   *)
(* created or the archive is closed, and a closed entry rejects writes.    *)
(* The world w is the record [zip, zc, ww, sws]: the entries, the          *)
(* archive's closed flag, the WorkbookWriter and its SheetWriters (a       *)
(* *SheetWriter is an index into sws, nil is 0; an io.Writer is an index   *)
(* into zip, nil is 0).                                                    *)
(***************************************************************************)
CloseLast(zip) ==
    IF Len(zip) = 0 THEN zip ELSE [zip EXCEPT ![Len(zip)].closed = TRUE]

\* zip.Writer.Create: closes the entry before; ok is whether the sink
\* accepted the header.  f is the new entry, 0 (nil) on failure.
ZipCreate(w, name, ok) ==
    IF ok
    THEN [w |-> [w EXCEPT !.zip = Append(CloseLast(@),
                              [name |-> name, data |-> <<>>, closed |-> FALSE])],
          f |-> Len(w.zip) + 1]
    ELSE [w |-> [w EXCEPT !.zip = CloseLast(@)], f |-> 0]

\* A write that an entry accepts after a later entry was created.
ZipWriteAnyEntry(w, f, chunk, ok) ==
    IF f = 0 THEN [w |-> w, res |-> "panic"]
    ELSE IF ~ok THEN [w |-> w, res |-> "error"]
    ELSE [w |-> [w EXCEPT !.zip[f].data = Append(@, chunk)], res |-> "nil"]

\* A write of one chunk to the io.Writer f: a nil writer panics, a closed
\* entry or a failing sink (ok = FALSE) returns an error.
ZipWrite(w, f, chunk, ok) ==
    IF f = 0 THEN [w |-> w, res |-> "panic"]
    ELSE IF w.zip[f].closed \/ ~ok THEN [w |-> w, res |-> "error"]
    ELSE [w |-> [w EXCEPT !.zip[f].data = Append(@, chunk)], res |-> "nil"]

\* zip.Writer.Close
ZipClose(w, ok) ==
    [w |-> [w EXCEPT !.zip = CloseLast(@), !.zc = TRUE],
     res |-> IF ok /\ ~w.zc THEN "nil" ELSE "error"]

\* NewWorkbookWriter
NewWorkbookWriter ==
    [zip |-> <<>>, zc |-> FALSE, sws |-> <<>>,
     ww |-> [sheetWriter |-> 0, headerWritten |-> FALSE, closed |-> FALSE,
             sheetNames |-> <<>>, SharedStrings |-> <<>>,
             documentInfo |-> [nil |-> TRUE, CreatedBy |-> "", ModifiedBy |-> ""]]]

(***************************************************************************)
(* SheetWriter.  A SheetWriter is [f, err, currentIndex, maxNCols, closed, *)
(* mergeCells, mergeCellsCount]; mergeCells, the concatenation of          *)
(* <mergeCell ref="..."/> elements, is kept as the sequence of their refs. *)
(* Written chunks are records of the arguments of the format strings.      *)
(***************************************************************************)

\* WriteCells with the merge range ending one column too far.
RECURSIVE WriteCellsLongMerge(_, _, _, _, _)
WriteCellsLongMerge(sw, r, j, y, rb) ==
    IF j > Len(r) THEN [sw |-> sw, rb |-> rb, res |-> "nil"]
    ELSE LET c == r[j]
             idx == CellIndex(j - 1, y)
         IN IF c.Type = CellTypeDatetime /\ ~ParseOk(c.Value)
            THEN [sw |-> sw, rb |-> rb, res |-> "error"]
            ELSE LET value == IF c.Type = CellTypeDatetime
                              THEN OADate(ParseRFC3339(c.Value))
                              ELSE IF c.Type = CellTypeInlineString
                              THEN EscapeString(c.Value)
                              ELSE c.Value
                     sw1 == IF c.Colspan > 1
                            THEN [sw EXCEPT
                                    !.mergeCells = Append(@,
                                        idx[1] \o Itoa(idx[2]) \o ":"
                                        \o CellIndex((j - 1) + c.Colspan, y)[1] \o Itoa(idx[2])),
                                    !.mergeCellsCount = @ + 1]
                            ELSE sw
                 IN WriteCellsLongMerge(sw1, r, j + 1, y,
                               Append(rb, [cellString |-> c.Type,
                                           r |-> idx[1] \o Itoa(idx[2]),
                                           v |-> value]))

\* WriteCells with a colspan check that rejects 0.
RECURSIVE WriteCellsStrict(_, _, _, _, _)
WriteCellsStrict(sw, r, j, y, rb) ==
    IF j > Len(r) THEN [sw |-> sw, rb |-> rb, res |-> "nil"]
    ELSE LET c == r[j]
             idx == CellIndex(j - 1, y)
         IN IF c.Type = CellTypeDatetime /\ ~ParseOk(c.Value)
            THEN [sw |-> sw, rb |-> rb, res |-> "error"]
            ELSE IF c.Colspan < 1 THEN [sw |-> sw, rb |-> rb, res |-> "panic"]
            ELSE LET value == IF c.Type = CellTypeDatetime
                              THEN OADate(ParseRFC3339(c.Value))
                              ELSE IF c.Type = CellTypeInlineString
                              THEN EscapeString(c.Value)
                              ELSE c.Value
                     sw1 == IF c.Colspan > 1
                            THEN [sw EXCEPT
                                    !.mergeCells = Append(@,
                                        idx[1] \o Itoa(idx[2]) \o ":"
                                        \o CellIndex((j - 1) + c.Colspan - 1, y)[1] \o Itoa(idx[2])),
                                    !.mergeCellsCount = @ + 1]
                            ELSE sw
                 IN WriteCellsStrict(sw1, r, j + 1, y,
                               Append(rb, [cellString |-> c.Type,
                                           r |-> idx[1] \o Itoa(idx[2]),
                                           v |-> value]))

\* WriteCells passing a Datetime value that does not parse through
\* unchanged, as AppendRow does.
RECURSIVE WriteCellsLenient(_, _, _, _, _)
WriteCellsLenient(sw, r, j, y, rb) ==
    IF j > Len(r) THEN [sw |-> sw, rb |-> rb, res |-> "nil"]
    ELSE LET c == r[j]
             idx == CellIndex(j - 1, y)
             cellX == idx[1]
             cellY == idx[2]
         IN IF FALSE
            THEN [sw |-> sw, rb |-> rb, res |-> "error"]
            ELSE LET value == IF c.Type = CellTypeDatetime /\ ParseOk(c.Value)
                              THEN OADate(ParseRFC3339(c.Value))
                              ELSE IF c.Type = CellTypeInlineString
                              THEN EscapeString(c.Value)
                              ELSE c.Value
                     sw1 == IF c.Colspan > 1
                            THEN LET mergeCellX == CellIndex((j - 1) + c.Colspan - 1, y)[1]
                                 IN [sw EXCEPT
                                       !.mergeCells = Append(@,
                                           cellX \o Itoa(cellY) \o ":" \o mergeCellX \o Itoa(cellY)),
                                       !.mergeCellsCount = @ + 1]
                            ELSE sw
                 IN WriteCellsLenient(sw1, r, j + 1, y,
                               Append(rb, [cellString |-> c.Type,
                                           r |-> cellX \o Itoa(cellY),
                                           v |-> value]))

\* WriteRows, the loop over the cells of one row: cell j (one-based here,
\* zero-based j-1 in the code) of the row with absolute index y.
RECURSIVE WriteCells(_, _, _, _, _)
WriteCells(sw, r, j, y, rb) ==
    IF j > Len(r) THEN [sw |-> sw, rb |-> rb, res |-> "nil"]
    ELSE LET c == r[j]
             idx == CellIndex(j - 1, y)
             cellX == idx[1]
             cellY == idx[2]
         IN IF c.Type = CellTypeDatetime /\ ~ParseOk(c.Value)
            THEN [sw |-> sw, rb |-> rb, res |-> "error"]
            ELSE LET value == IF c.Type = CellTypeDatetime
                              THEN OADate(ParseRFC3339(c.Value))
                              ELSE IF c.Type = CellTypeInlineString
                              THEN EscapeString(c.Value)
                              ELSE c.Value
                     sw1 == IF c.Colspan > 1
                            THEN LET mergeCellX == CellIndex((j - 1) + c.Colspan - 1, y)[1]
                                 IN [sw EXCEPT
                                       !.mergeCells = Append(@,
                                           cellX \o Itoa(cellY) \o ":" \o mergeCellX \o Itoa(cellY)),
                                       !.mergeCellsCount = @ + 1]
                            ELSE sw
                 IN WriteCells(sw1, r, j + 1, y,
                               Append(rb, [cellString |-> c.Type,
                                           r |-> cellX \o Itoa(cellY),
                                           v |-> value]))

\* WriteRows, the loop over the rows from row i (one-based) on; failAt is
\* the row whose write the sink rejects (0: none).
RECURSIVE WriteRowsFrom(_, _, _, _, _)
WriteRowsFrom(w, k, rows, i, failAt) ==
    IF i > Len(rows)
    THEN [w |-> [w EXCEPT !.sws[k].currentIndex = @ + Len(rows)], res |-> "nil"]
    ELSE LET r == rows[i]
             sw0 == w.sws[k]
             sw1 == IF sw0.maxNCols < Len(r) THEN [sw0 EXCEPT !.maxNCols = Len(r)] ELSE sw0
             cs == WriteCells(sw1, r, 1, (i - 1) + sw0.currentIndex, <<>>)
             w1 == [w EXCEPT !.sws[k] = cs.sw]
         IN IF cs.res # "nil" THEN [w |-> w1, res |-> cs.res]
            ELSE LET wr == ZipWrite(w1, sw0.f,
                                    [tag |-> "row",
                                     r |-> Itoa((i - 1) + sw0.currentIndex + 1),
                                     cells |-> cs.rb],
                                    failAt # i)
                 IN IF wr.res # "nil" THEN wr
                    ELSE WriteRowsFrom(wr.w, k, rows, i + 1, failAt)

\* WriteRows numbering every batch from row 1.
WriteRowsNoOffset(w, k, rows, failAt) ==
    IF w.sws[k].closed THEN [w |-> w, res |-> "panic"]
    ELSE WriteRowsFrom([w EXCEPT !.sws[k].currentIndex = 0], k, rows, 1, failAt)

\* SheetWriter.WriteRows
WriteRows(w, k, rows, failAt) ==
    IF w.sws[k].closed THEN [w |-> w, res |-> "panic"]
    ELSE WriteRowsFrom(w, k, rows, 1, failAt)

\* The footer SheetWriter.Close writes.
SheetEnd(sw, cellEnd) ==
    [tag |-> "sheetEnd",
     dimension |-> "A1:" \o cellEnd[1] \o Itoa(cellEnd[2]),
     mergeCells |-> IF sw.mergeCellsCount > 0
                    THEN <<[count |-> Itoa(sw.mergeCellsCount), refs |-> sw.mergeCells]>>
                    ELSE <<>>,
     last |-> "</worksheet>"]

\* Close with the end of the dimension taken at (maxNCols, currentIndex).
SheetWriterCloseOffByOne(w, k, ok) ==
    LET sw == w.sws[k] IN
    IF sw.closed THEN [w |-> w, res |-> "panic"]
    ELSE LET wr == ZipWrite(w, sw.f, SheetEnd(sw, CellIndex(sw.maxNCols, sw.currentIndex)), ok)
         IN IF wr.res = "panic" THEN wr
            ELSE [w |-> [wr.w EXCEPT !.sws[k].closed = TRUE], res |-> wr.res]

\* Close setting the closed flag only when the footer was written.
SheetWriterCloseOnSuccess(w, k, ok) ==
    LET sw == w.sws[k] IN
    IF sw.closed THEN [w |-> w, res |-> "panic"]
    ELSE LET wr == ZipWrite(w, sw.f,
                            SheetEnd(sw, CellIndex(Dec64(sw.maxNCols), Dec64(sw.currentIndex))), ok)
         IN IF wr.res = "nil" THEN [w |-> [wr.w EXCEPT !.sws[k].closed = TRUE], res |-> "nil"]
            ELSE wr

\* SheetWriter.Close
SheetWriterClose(w, k, ok) ==
    LET sw == w.sws[k] IN
    IF sw.closed THEN [w |-> w, res |-> "panic"]
    ELSE LET cellEnd == CellIndex(Dec64(sw.maxNCols), Dec64(sw.currentIndex))
             wr == ZipWrite(w, sw.f, SheetEnd(sw, cellEnd), ok)
         IN IF wr.res = "panic" THEN wr
            ELSE [w |-> [wr.w EXCEPT !.sws[k].closed = TRUE], res |-> wr.res]

\* SheetWriter.WriteHeader
SheetWriterWriteHeader(w, k, s, ok) ==
    IF w.sws[k].closed THEN [w |-> w, res |-> "panic"]
    ELSE ZipWrite(w, w.sws[k].f, [tag |-> "sheetStart", Cols |-> s.columns], ok)

(***************************************************************************)
(* WorkbookWriter.                                                         *)
(***************************************************************************)

\* The parts WriteHeader creates, in order, with the template and the data
\* each is rendered from.
HeaderParts(ww) ==
    << [name |-> "[Content_Types].xml", tpl |-> "TemplateContentTypes", data |-> ww.sheetNames],
       [name |-> "docProps/app.xml", tpl |-> "TemplateApp", data |-> ww.sheetNames],
       [name |-> "docProps/core.xml", tpl |-> "TemplateCore", data |-> <<ww.documentInfo>>],
       [name |-> "_rels/.rels", tpl |-> "TemplateRelationships", data |-> <<>>],
       [name |-> "xl/workbook.xml", tpl |-> "TemplateWorkbook", data |-> ww.sheetNames],
       [name |-> "xl/_rels/workbook.xml.rels", tpl |-> "TemplateWorkbookRelationships", data |-> ww.sheetNames],
       [name |-> "xl/styles.xml", tpl |-> "TemplateStyles", data |-> <<>>],
       [name |-> "xl/sharedStrings.xml", tpl |-> "TemplateStringLookups", data |-> ww.SharedStrings] >>

\* Template.Execute fails without the sink's help when templateCore reads
\* the fields of a nil *DocumentInfo.
RenderFails(part) == part.tpl = "TemplateCore" /\ part.data[1].nil

\* WriteHeader from part n on.  hdr is what the sink does: [kind |-> "ok"],
\* [kind |-> "create", at |-> n] (Create of part n fails: f is nil, the
\* error is overwritten and Execute writes to the nil writer), or
\* [kind |-> "write", at |-> n] (the write of part n fails).
RECURSIVE WriteHeaderFrom(_, _, _)
WriteHeaderFrom(w, n, hdr) ==
    LET parts == HeaderParts(w.ww) IN
    IF n > Len(parts) THEN [w |-> w, res |-> "nil"]
    ELSE LET cr == ZipCreate(w, parts[n].name, ~(hdr.kind = "create" /\ hdr.at = n))
         IN IF cr.f # 0 /\ RenderFails(parts[n]) THEN [w |-> cr.w, res |-> "error"]
            ELSE LET wr == ZipWrite(cr.w, cr.f,
                                    [tag |-> parts[n].tpl, data |-> parts[n].data],
                                    ~(hdr.kind = "write" /\ hdr.at = n))
                 IN IF wr.res # "nil" THEN wr
                    ELSE WriteHeaderFrom(wr.w, n + 1, hdr)

\* WorkbookWriter.WriteHeader (headerWritten is read, never assigned)
WorkbookWriterWriteHeader(w, hdr) ==
    IF w.ww.headerWritten THEN [w |-> w, res |-> "panic"]
    ELSE WriteHeaderFrom(w, 1, hdr)

\* WorkbookWriter.Close
WorkbookWriterClose(w, closeOk, hdr, zipOk) ==
    IF w.ww.closed THEN [w |-> w, res |-> "panic"]
    ELSE LET c == IF w.ww.sheetWriter # 0
                  THEN SheetWriterClose(w, w.ww.sheetWriter, closeOk)
                  ELSE [w |-> w, res |-> "nil"]
         IN IF c.res # "nil" THEN c
            ELSE LET h == IF ~c.w.ww.headerWritten
                          THEN WorkbookWriterWriteHeader(c.w, hdr)
                          ELSE [w |-> c.w, res |-> "nil"]
                 IN IF h.res # "nil" THEN h
                    ELSE ZipClose([h.w EXCEPT !.ww.closed = TRUE], zipOk)

\* NewSheetWriter putting the title of the new sheet first in sheetNames.
NewSheetWriterCreateNewestFirst(c, s, createOk, hdrOk) ==
    IF c.res # "nil" THEN [w |-> c.w, res |-> c.res, sw |-> 0]
            ELSE LET cr == ZipCreate(c.w, "xl/worksheets/" \o "sheet"
                                          \o Itoa(Len(c.w.ww.sheetNames) + 1) \o ".xml",
                                     createOk)
                     k == Len(cr.w.sws) + 1
                     w1 == [cr.w EXCEPT
                              !.sws = Append(@, [f |-> cr.f, err |-> ~createOk,
                                                 currentIndex |-> 0, maxNCols |-> 0,
                                                 closed |-> FALSE, mergeCells |-> <<>>,
                                                 mergeCellsCount |-> 0]),
                              !.ww.documentInfo = [nil |-> FALSE,
                                                   CreatedBy |-> s.DocumentInfo.CreatedBy,
                                                   ModifiedBy |-> s.DocumentInfo.ModifiedBy],
                              !.ww.sheetWriter = k]
                     h == SheetWriterWriteHeader(w1, k, s, hdrOk)
                 IN IF h.res = "panic" THEN [w |-> h.w, res |-> "panic", sw |-> 0]
                    ELSE [w |-> [h.w EXCEPT !.ww.sheetNames = <<s.Title>> \o @],
                          res |-> h.res, sw |-> k]

\* NewSheetWriter from the creation of the entry on; c is what the close of
\* the SheetWriter before returned.
NewSheetWriterCreate(c, s, createOk, hdrOk) ==
    IF c.res # "nil" THEN [w |-> c.w, res |-> c.res, sw |-> 0]
            ELSE LET cr == ZipCreate(c.w, "xl/worksheets/" \o "sheet"
                                          \o Itoa(Len(c.w.ww.sheetNames) + 1) \o ".xml",
                                     createOk)
                     k == Len(cr.w.sws) + 1
                     w1 == [cr.w EXCEPT
                              !.sws = Append(@, [f |-> cr.f, err |-> ~createOk,
                                                 currentIndex |-> 0, maxNCols |-> 0,
                                                 closed |-> FALSE, mergeCells |-> <<>>,
                                                 mergeCellsCount |-> 0]),
                              !.ww.documentInfo = [nil |-> FALSE,
                                                   CreatedBy |-> s.DocumentInfo.CreatedBy,
                                                   ModifiedBy |-> s.DocumentInfo.ModifiedBy],
                              !.ww.sheetWriter = k]
                     h == SheetWriterWriteHeader(w1, k, s, hdrOk)
                 IN IF h.res = "panic" THEN [w |-> h.w, res |-> "panic", sw |-> 0]
                    ELSE [w |-> [h.w EXCEPT !.ww.sheetNames = Append(@, s.Title)],
                          res |-> h.res, sw |-> k]

\* NewSheetWriter leaving the SheetWriter before open.
NewSheetWriterNoClose(w, s, closeOk, createOk, hdrOk) ==
    IF w.ww.closed THEN [w |-> w, res |-> "panic", sw |-> 0]
    ELSE NewSheetWriterCreate([w |-> w, res |-> "nil"], s, createOk, hdrOk)

\* WorkbookWriter.NewSheetWriter.  sw is the SheetWriter returned (0: nil).
NewSheetWriter(w, s, closeOk, createOk, hdrOk) ==
    IF w.ww.closed THEN [w |-> w, res |-> "panic", sw |-> 0]
    ELSE NewSheetWriterCreate(IF w.ww.sheetWriter # 0
                              THEN SheetWriterClose(w, w.ww.sheetWriter, closeOk)
                              ELSE [w |-> w, res |-> "nil"],
                              s, createOk, hdrOk)

\* SaveToWriter from "ww.SharedStrings = s.sharedStrings" on; r is what
\* WriteRows returned.
SaveToWriterClose(s, r, closeOk, hdr, zipOk) ==
    IF r.res # "nil" THEN r
    ELSE WorkbookWriterClose([r.w EXCEPT !.ww.SharedStrings = s.sharedStrings],
                             closeOk, hdr, zipOk)

\* The same without the assignment of ww.SharedStrings.
SaveToWriterCloseNoStrings(s, r, closeOk, hdr, zipOk) ==
    IF r.res # "nil" THEN r
    ELSE WorkbookWriterClose(r.w, closeOk, hdr, zipOk)

\* SaveToWriter from "sw.WriteRows(s.rows)" on; n is what NewSheetWriter
\* returned.
SaveToWriterRows(s, n, failAt, closeOk, hdr, zipOk) ==
    IF n.res # "nil" THEN [w |-> n.w, res |-> n.res]
    ELSE SaveToWriterClose(s, WriteRows(n.w, n.sw, s.rows, failAt), closeOk, hdr, zipOk)

SaveToWriterRowsNoStrings(s, n, failAt, closeOk, hdr, zipOk) ==
    IF n.res # "nil" THEN [w |-> n.w, res |-> n.res]
    ELSE SaveToWriterCloseNoStrings(s, WriteRows(n.w, n.sw, s.rows, failAt),
                                    closeOk, hdr, zipOk)

\* SaveToWriter without the assignment of ww.SharedStrings.
SaveToWriterNoStrings(s, createOk, hdrOk, failAt, closeOk, hdr, zipOk) ==
    SaveToWriterRowsNoStrings(s, NewSheetWriter(NewWorkbookWriter, s, TRUE, createOk, hdrOk),
                              failAt, closeOk, hdr, zipOk)

\* Sheet.SaveToWriter: the world it builds and the error it returns.
SaveToWriter(s, createOk, hdrOk, failAt, closeOk, hdr, zipOk) ==
    SaveToWriterRows(s, NewSheetWriter(NewWorkbookWriter, s, TRUE, createOk, hdrOk),
                     failAt, closeOk, hdr, zipOk)

(***************************************************************************)
(* State.                                                                  *)
(***************************************************************************)
VARIABLES
    zip,        \* the entries of ww.zipWriter
    zc,         \* whether the archive was closed
    ww,         \* the WorkbookWriter
    sws,        \* the SheetWriters created by ww
    sheet,      \* the buffered Sheet
    origRows,   \* history: the rows as the caller passed them to AppendRow
    ret,        \* the last call: [op, sw, arg, res], res is "nil", "error" or "panic"
    faults,     \* how many times the sink has failed
    swHist,     \* history, per SheetWriter: what WriteRows was called with
    closeCalled \* history: WorkbookWriter.Close has been called

vars == <<zip, zc, ww, sws, sheet, origRows, ret, faults, swHist, closeCalled>>

World == [zip |-> zip, zc |-> zc, ww |-> ww, sws |-> sws]

SetWorld(w) == zip' = w.zip /\ zc' = w.zc /\ ww' = w.ww /\ sws' = w.sws

Max(a, b) == IF a < b THEN b ELSE a

RECURSIVE MaxCells(_)
MaxCells(rows) ==
    IF Len(rows) = 0 THEN 0 ELSE Max(Len(rows[1]), MaxCells(Tail(rows)))

\* The history of a new SheetWriter: sizes are the sizes of the non-empty
\* batches of the calls that returned nil, failed is whether a call returned
\* an error, maxPassed is the largest cell count of the rows passed to
\* WriteRows, maxSeen that of the rows WriteRows got to (every row of a call
\* that returned nil, the rows up to the failing one otherwise).
NewHist == [sizes |-> <<>>, failed |-> FALSE, maxPassed |-> 0, maxSeen |-> 0]

\* The history of SheetWriter k after WriteRows(rows) took World to r.
HistAfter(h, k, rows, r) ==
    LET f == sws[k].f
        emitted == Len(r.w.zip[f].data) - Len(zip[f].data)
        seen == IF r.res = "nil" THEN rows ELSE SubSeq(rows, 1, emitted + 1)
    IN IF r.res = "panic" THEN h
       ELSE [sizes |-> IF r.res = "nil" /\ Len(rows) > 0
                       THEN Append(h.sizes, Len(rows)) ELSE h.sizes,
             failed |-> h.failed \/ r.res = "error",
             maxPassed |-> Max(h.maxPassed, MaxCells(rows)),
             maxSeen |-> Max(h.maxSeen, MaxCells(seen))]

\* A call whose outcome r differs from its outcome r0 with a sink that
\* accepts everything has met one failure of the sink; a failure the call
\* never reaches is the call with a sink that accepts everything.
Fault(r, r0) ==
    /\ faults < MaxFaults
    /\ r # r0
    /\ faults' = faults + 1

\* What the sink may do during WriteHeader: accept everything, or fail the
\* creation or the write of the first or the last part.
HeaderOk == [kind |-> "ok", at |-> 0]
HeaderFaults == [kind : {"create", "write"}, at : {1, 8}]

(***************************************************************************)
(* Inputs.                                                                 *)
(***************************************************************************)
Columns2 == <<Column("Col1", 10), Column("Col2", 10)>>

\* Sheets passed to NewSheetWriter: a fresh one, and one that has interned
\* a string.
SheetPool ==
    { NewSheetWithColumns(Columns2),
      [AppendRow(NewSheetWithColumns(Columns2),
                 <<Cell(CellTypeNumber, "10", 0), Cell(CellTypeString, "Apple", 0)>>).s
         EXCEPT !.Title = "MySheet"] }

RowPool ==
    { <<Cell(CellTypeNumber, "10", 0), Cell(CellTypeInlineString, "a<b", 3)>>,
      <<Cell(CellTypeString, "0", 1), Cell(CellTypeDatetime, "1970-01-01T12:20:00Z", 2),
        Cell(CellTypeNumber, "7", 0)>>,
      <<Cell(CellTypeNumber, "1", 2), Cell(CellTypeDatetime, "yesterday", 0)>>,
      <<>> }

Batches == UNION { [1..n -> RowPool] : n \in 0..MaxBatch }

\* The batch of the workbook-level specification: one row.
BookBatches == { <<<<Cell(CellTypeNumber, "10", 0), Cell(CellTypeInlineString, "a<b", 2)>>>> }

\* The SheetWriters the caller holds: those NewSheetWriter returned.
Held == { k \in 1..Len(sws) : sws[k].f # 0 }

\* The chunks the calls on SheetWriters have added to the sheet entries after
\* the header NewSheetWriter wrote: rows and rewritten headers.
IsBody(chunk) == chunk.tag # "sheetEnd"
RECURSIVE BodyChunks(_)
BodyChunks(n) ==
    IF n = 0 THEN 0
    ELSE BodyChunks(n - 1)
         + (IF sws[n].f = 0 THEN 0 ELSE Len(SelectSeq(zip[sws[n].f].data, IsBody)) - 1)

\* A panic is not recovered: the run ends at the call that panicked.
Running == ret.res # "panic"

HeaderRuns == Cardinality({ n \in 1..Len(zip) : zip[n].name = "[Content_Types].xml" })

(***************************************************************************)
(* One action per public call of the streaming interface.                  *)
(***************************************************************************)
Init ==
    /\ zip = NewWorkbookWriter.zip
    /\ zc = NewWorkbookWriter.zc
    /\ ww = NewWorkbookWriter.ww
    /\ sws = NewWorkbookWriter.sws
    /\ sheet = NewSheetWithColumns(Columns2)
    /\ origRows = <<>>
    /\ ret = [op |-> "NewWorkbookWriter", sw |-> 0, arg |-> <<>>, res |-> "nil"]
    /\ faults = 0
    /\ swHist = <<>>
    /\ closeCalled = FALSE

\* Every call meets at most one failure of the sink, since it returns or
\* panics at the first one: io names the step of the call that fails.  The
\* caller gives a sheet a title other than that of the sheet before it.
DoNewSheetWriter(maxSheets, sheets) ==
    /\ Running
    /\ Len(sws) < maxSheets
    /\ \E s \in sheets, io \in {"ok", "close", "create", "header"} :
         /\ ww.sheetNames # <<>> => s.Title # ww.sheetNames[Len(ww.sheetNames)]
         /\ LET r == NewSheetWriter(World, s, io # "close", io # "create", io # "header")
            IN /\ IF io = "ok" THEN faults' = faults
                  ELSE Fault(r, NewSheetWriter(World, s, TRUE, TRUE, TRUE))
               /\ SetWorld(r.w)
               /\ ret' = [op |-> "NewSheetWriter", sw |-> r.sw, arg |-> <<s.Title>>, res |-> r.res]
               /\ swHist' = IF Len(r.w.sws) > Len(sws) THEN Append(swHist, NewHist) ELSE swHist
    /\ UNCHANGED <<sheet, origRows, closeCalled>>

DoWriteRows(batches, maxRows) ==
    /\ Running
    /\ \E k \in Held, rows \in batches :
         /\ BodyChunks(Len(sws)) + Len(rows) <= maxRows
         /\ sws[k].mergeCellsCount < MaxMerges
         /\ \E failAt \in 0..Len(rows) :
              LET r == WriteRows(World, k, rows, failAt)
              IN /\ IF failAt = 0 THEN faults' = faults
                    ELSE Fault(r, WriteRows(World, k, rows, 0))
                 /\ SetWorld(r.w)
                 /\ ret' = [op |-> "WriteRows", sw |-> k, arg |-> rows, res |-> r.res]
                 /\ swHist' = [swHist EXCEPT ![k] = HistAfter(@, k, rows, r)]
    /\ UNCHANGED <<sheet, origRows, closeCalled>>

CallSheetWriterClose ==
    /\ Running
    /\ \E k \in Held, ok \in BOOLEAN :
         LET r == SheetWriterClose(World, k, ok)
         IN /\ IF ok THEN faults' = faults
               ELSE Fault(r, SheetWriterClose(World, k, TRUE))
            /\ SetWorld(r.w)
            /\ ret' = [op |-> "SheetWriter.Close", sw |-> k, arg |-> <<>>, res |-> r.res]
    /\ UNCHANGED <<sheet, origRows, swHist, closeCalled>>

DoSheetWriterWriteHeader(maxRows, sheets) ==
    /\ Running
    /\ \E k \in Held, s \in sheets, ok \in BOOLEAN :
         /\ BodyChunks(Len(sws)) < maxRows
         /\ LET r == SheetWriterWriteHeader(World, k, s, ok)
            IN /\ IF ok THEN faults' = faults
                  ELSE Fault(r, SheetWriterWriteHeader(World, k, s, TRUE))
               /\ SetWorld(r.w)
               /\ ret' = [op |-> "SheetWriter.WriteHeader", sw |-> k, arg |-> <<>>, res |-> r.res]
    /\ UNCHANGED <<sheet, origRows, swHist, closeCalled>>

CallWorkbookWriterWriteHeader ==
    /\ Running
    /\ HeaderRuns < MaxHeaders
    /\ \E hdr \in {HeaderOk} \cup HeaderFaults :
         LET r == WorkbookWriterWriteHeader(World, hdr)
         IN /\ IF hdr = HeaderOk THEN faults' = faults
               ELSE Fault(r, WorkbookWriterWriteHeader(World, HeaderOk))
            /\ SetWorld(r.w)
            /\ ret' = [op |-> "WorkbookWriter.WriteHeader", sw |-> 0, arg |-> <<>>, res |-> r.res]
    /\ UNCHANGED <<sheet, origRows, swHist, closeCalled>>

\* io is <<closeOk, hdr, zipOk>>.
CallWorkbookWriterClose ==
    /\ Running
    /\ HeaderRuns <= MaxHeaders
    /\ \E io \in {<<TRUE, HeaderOk, TRUE>>, <<FALSE, HeaderOk, TRUE>>, <<TRUE, HeaderOk, FALSE>>}
                 \cup {<<TRUE, h, TRUE>> : h \in HeaderFaults} :
         LET r == WorkbookWriterClose(World, io[1], io[2], io[3])
         IN /\ IF io = <<TRUE, HeaderOk, TRUE>> THEN faults' = faults
               ELSE Fault(r, WorkbookWriterClose(World, TRUE, HeaderOk, TRUE))
            /\ SetWorld(r.w)
            /\ ret' = [op |-> "WorkbookWriter.Close", sw |-> ww.sheetWriter, arg |-> <<>>, res |-> r.res]
            /\ closeCalled' = TRUE
    /\ UNCHANGED <<sheet, origRows, swHist>>

(***************************************************************************)
(* Spec: a WorkbookWriter with up to MaxSheets sheets, every public call.  *)
(***************************************************************************)
CallNewSheetWriter == DoNewSheetWriter(MaxSheets, SheetPool)
CallWriteRows == DoWriteRows(BookBatches, MaxBookRows)
CallSheetWriterWriteHeader == DoSheetWriterWriteHeader(MaxBookRows, {NewSheetWithColumns(Columns2)})

Next ==
    \/ CallNewSheetWriter
    \/ CallWriteRows
    \/ CallSheetWriterClose
    \/ CallSheetWriterWriteHeader
    \/ CallWorkbookWriterWriteHeader
    \/ CallWorkbookWriterClose

Spec == Init /\ [][Next]_vars

(***************************************************************************)
(* SpecRows: one SheetWriter and the calls on it, with every batch.        *)
(***************************************************************************)
OpenFirstSheet == DoNewSheetWriter(1, {NewSheetWithColumns(Columns2)})
WriteBatch == DoWriteRows(Batches, MaxRows)
CloseSheet == CallSheetWriterClose
RewriteSheetHeader == DoSheetWriterWriteHeader(MaxRows, {NewSheetWithColumns(Columns2)})

NextRows ==
    \/ OpenFirstSheet
    \/ WriteBatch
    \/ CloseSheet
    \/ RewriteSheetHeader

SpecRows == Init /\ [][NextRows]_vars

(***************************************************************************)
(* SpecSheet: the buffered Sheet, AppendRow and SaveToWriter.              *)
(***************************************************************************)
\* Rows passed to AppendRow: the last two have the wrong number of cells.
SheetRowPool ==
    { <<Cell(CellTypeNumber, "10", 0), Cell(CellTypeString, "Apple", 0)>>,
      <<Cell(CellTypeString, "a&b", 0), Cell(CellTypeString, "Apple", 0)>>,
      <<Cell(CellTypeString, "a&amp;b", 1), Cell(CellTypeDatetime, "1970-01-01T00:00:00Z", 0)>>,
      <<Cell(CellTypeString, "Pear", 0), Cell(CellTypeDatetime, "yesterday", 0)>>,
      <<Cell(CellTypeInlineString, "x>y", 0), Cell(CellTypeNumber, "1", 2)>>,
      <<Cell(CellTypeString, "Kiwi", 0)>>,
      <<Cell(CellTypeNumber, "1", 0), Cell(CellTypeString, "Fig", 0), Cell(CellTypeNumber, "2", 0)>> }

CallAppendRow ==
    /\ Len(sheet.rows) < MaxRows
    /\ \E r \in SheetRowPool :
         LET a == AppendRow(sheet, r)
         IN /\ sheet' = a.s
            /\ origRows' = IF a.res = "nil" THEN Append(origRows, r) ELSE origRows
            /\ ret' = [op |-> "AppendRow", sw |-> 0, arg |-> r, res |-> a.res]
    /\ UNCHANGED <<zip, zc, ww, sws, faults, swHist, closeCalled>>

\* io is <<createOk, hdrOk, failAt, closeOk, hdr, zipOk>>.
SaveOk == <<TRUE, TRUE, 0, TRUE, HeaderOk, TRUE>>

SaveFaults ==
    {<<FALSE, TRUE, 0, TRUE, HeaderOk, TRUE>>, <<TRUE, FALSE, 0, TRUE, HeaderOk, TRUE>>,
     <<TRUE, TRUE, 0, FALSE, HeaderOk, TRUE>>, <<TRUE, TRUE, 0, TRUE, HeaderOk, FALSE>>}
    \cup {<<TRUE, TRUE, n, TRUE, HeaderOk, TRUE>> : n \in 1..Len(sheet.rows)}
    \cup {<<TRUE, TRUE, 0, TRUE, h, TRUE>> : h \in HeaderFaults}

\* The step of a SaveToWriter call that returned r and would have returned
\* r0 with a sink that accepts everything.
SaveToWriterStep(r, r0) ==
    /\ IF r = r0 THEN faults' = faults ELSE Fault(r, r0)
    /\ SetWorld(r.w)
    /\ ret' = [op |-> "SaveToWriter", sw |-> 0, arg |-> <<>>, res |-> r.res]
    /\ swHist' = [k \in 1..Len(r.w.sws) |-> NewHist]

CallSaveToWriter ==
    /\ \E io \in {SaveOk} \cup SaveFaults :
         SaveToWriterStep(SaveToWriter(sheet, io[1], io[2], io[3], io[4], io[5], io[6]),
                          SaveToWriter(sheet, TRUE, TRUE, 0, TRUE, HeaderOk, TRUE))
    /\ UNCHANGED <<sheet, origRows, closeCalled>>

NextSheet ==
    \/ CallAppendRow
    \/ CallSaveToWriter

SpecSheet == Init /\ [][NextSheet]_vars

(***************************************************************************)
(* SpecCells: CellIndex applied to every column and row of a range.        *)
(***************************************************************************)
\* The columns and rows given to CellIndex: a range and those of the
\* package's test.
CellCols == (0..MaxCol) \cup {2600}
CellRows == (0..MaxCellRow) \cup {45, 100000}

InitCells ==
    /\ zip = NewWorkbookWriter.zip
    /\ zc = NewWorkbookWriter.zc
    /\ ww = NewWorkbookWriter.ww
    /\ sws = NewWorkbookWriter.sws
    /\ sheet = NewSheetWithColumns(Columns2)
    /\ origRows = <<>>
    /\ \E x \in CellCols, y \in CellRows :
         ret = [op |-> "input", sw |-> 0, arg |-> <<x, y>>, res |-> <<>>]
    /\ faults = 0
    /\ swHist = <<>>
    /\ closeCalled = FALSE

CallCellIndex ==
    /\ ret.op = "input"
    /\ ret' = [ret EXCEPT !.op = "CellIndex", !.res = CellIndex(ret.arg[1], ret.arg[2])]
    /\ UNCHANGED <<zip, zc, ww, sws, sheet, origRows, faults, swHist, closeCalled>>

NextCells == CallCellIndex

SpecCells == InitCells /\ [][NextCells]_vars

(***************************************************************************)
(* SpecDates: OADate applied to times of three days, every twenty minutes, *)
(* in UTC and in a zone one hour east of it.  A time.Time is               *)
(* [day, sec, off]: the whole days from 1899-12-30T00:00:00 UTC to the     *)
(* instant, the seconds of the instant into its UTC day, and the offset of *)
(* its zone in seconds.                                                    *)
(***************************************************************************)
DateDays == {ParseTable[v].day : v \in DOMAIN ParseTable}
DateSecs == {20 * 60 * k : k \in 0..MaxDateStep}
DateOffsets == {ParseTable[v].off : v \in DOMAIN ParseTable}

InitDates ==
    /\ zip = NewWorkbookWriter.zip
    /\ zc = NewWorkbookWriter.zc
    /\ ww = NewWorkbookWriter.ww
    /\ sws = NewWorkbookWriter.sws
    /\ sheet = NewSheetWithColumns(Columns2)
    /\ origRows = <<>>
    /\ \E day \in DateDays, sec \in DateSecs, off \in DateOffsets :
         ret = [op |-> "input", sw |-> 0,
                arg |-> <<[day |-> day, sec |-> sec, off |-> off]>>, res |-> ""]
    /\ faults = 0
    /\ swHist = <<>>
    /\ closeCalled = FALSE

CallOADate ==
    /\ ret.op = "input"
    /\ ret' = [ret EXCEPT !.op = "OADate", !.res = OADate(ret.arg[1])]
    /\ UNCHANGED <<zip, zc, ww, sws, sheet, origRows, faults, swHist, closeCalled>>

NextDates == CallOADate

SpecDates == InitDates /\ [][NextDates]_vars

(***************************************************************************)
(* SpecRetry: one SheetWriter whose caller goes on calling WriteRows after *)
(* a call returned an error; a batch fails at a Datetime value that does   *)
(* not parse, after the rows before it were emitted.                       *)
(***************************************************************************)
RetryRowPool ==
    { <<Cell(CellTypeNumber, "10", 0)>>,
      <<Cell(CellTypeDatetime, "yesterday", 0)>>,
      <<Cell(CellTypeNumber, "1", 2), Cell(CellTypeDatetime, "yesterday", 0)>> }

RetryBatches == UNION { [1..n -> RetryRowPool] : n \in 0..MaxBatch }

WriteRetryBatch == DoWriteRows(RetryBatches, MaxRows)

NextRetry ==
    \/ OpenFirstSheet
    \/ WriteRetryBatch
    \/ CloseSheet
    \/ RewriteSheetHeader

SpecRetry == Init /\ [][NextRetry]_vars

(***************************************************************************)
(* Properties.                                                             *)
(***************************************************************************)
RECURSIVE Sum(_)
Sum(q) == IF Len(q) = 0 THEN 0 ELSE q[1] + Sum(Tail(q))

Range(q) == { q[n] : n \in 1..Len(q) }

NoDuplicates(q) == \A m, n \in 1..Len(q) : q[m] = q[n] => m = n

IsPrefix(p, q) == Len(p) <= Len(q) /\ SubSeq(q, 1, Len(p)) = p

\* The <row> elements written to the entry f, in emission order.
IsRow(chunk) == chunk.tag = "row"
RowsOf(f) == SelectSeq(zip[f].data, IsRow)

\* C1: on a SheetWriter whose WriteRows calls all returned nil, with batch
\* sizes b1..bk, the emitted rows are numbered 1, 2, ..., b1+...+bk in
\* emission order, currentIndex is b1+...+bk, and cell j of row N has the
\* address colName(j) followed by N.
C1_RowNumbering ==
    \A k \in Held :
        ~swHist[k].failed =>
            LET rows == RowsOf(sws[k].f)
                total == Sum(swHist[k].sizes)
            IN /\ Len(rows) = total
               /\ sws[k].currentIndex = total
               /\ \A n \in 1..Len(rows) :
                    /\ rows[n].r = Itoa(n)
                    /\ \A j \in 1..Len(rows[n].cells) :
                         rows[n].cells[j].r = colName(j - 1) \o Itoa(n)

\* Two batches of one row each were written; the second row has two cells.
C1_Witness ==
    \E k \in Held :
        /\ ~swHist[k].failed
        /\ swHist[k].sizes = <<1, 1>>
        /\ Len(RowsOf(sws[k].f)) = 2
        /\ Len(RowsOf(sws[k].f)[2].cells) = 2

\* The escaped values of the String cells of the rows, in row and cell order.
RECURSIVE StringValues(_)
StringValues(rows) ==
    IF Len(rows) = 0 THEN <<>>
    ELSE LET IsString(c) == c.Type = CellTypeString
             vals == SelectSeq(rows[1], IsString)
         IN [n \in 1..Len(vals) |-> EscapeString(vals[n].Value)] \o StringValues(Tail(rows))

\* The first occurrences of the elements of q, in order.
RECURSIVE FirstSeen(_, _)
FirstSeen(q, acc) ==
    IF Len(q) = 0 THEN acc
    ELSE FirstSeen(Tail(q), IF q[1] \in Range(acc) THEN acc ELSE Append(acc, q[1]))

SharedStringsConsistent(s) ==
    /\ NoDuplicates(s.sharedStrings)
    /\ DOMAIN s.sharedStringMap = Range(s.sharedStrings)
    /\ \A n \in 1..Len(s.sharedStrings) : s.sharedStringMap[s.sharedStrings[n]] = n - 1

\* C2: after any sequence of AppendRow calls sharedStrings has no duplicate,
\* sharedStringMap has exactly the entries as keys and maps entry i to i,
\* the sequence is the escaped strings in first-seen order, and a step never
\* changes the index of a string nor removes or reorders an entry.
C2_SharedStringTable ==
    /\ SharedStringsConsistent(sheet)
    /\ [][ /\ SharedStringsConsistent(sheet')
           /\ sheet'.sharedStrings = FirstSeen(StringValues(origRows'), <<>>)
           /\ IsPrefix(sheet.sharedStrings, sheet'.sharedStrings)
           /\ \A v \in DOMAIN sheet.sharedStringMap :
                /\ v \in DOMAIN sheet'.sharedStringMap
                /\ sheet'.sharedStringMap[v] = sheet.sharedStringMap[v] ]_vars

\* Three String cells were appended, two of them equal, and "a&b" was
\* interned as "a&amp;b".
C2_Witness ==
    /\ Len(StringValues(origRows)) = 3
    /\ sheet.sharedStrings = <<"a&amp;b", "Apple">>

\* C3: AppendRow with a row whose cell count differs from the column count
\* returns an error and leaves rows, sharedStrings and sharedStringMap as
\* they were.
C3_ArityError ==
    [][ (ret'.op = "AppendRow" /\ Len(ret'.arg) # Len(sheet.columns)) =>
            /\ ret'.res = "error"
            /\ sheet'.rows = sheet.rows
            /\ sheet'.sharedStrings = sheet.sharedStrings
            /\ sheet'.sharedStringMap = sheet.sharedStringMap ]_vars

\* A row of three cells with the String "Fig", not in the table, was
\* rejected by a sheet that holds a row.
C3_Witness ==
    /\ ret.op = "AppendRow"
    /\ ret.res = "error"
    /\ Len(ret.arg) = 3
    /\ "Fig" \notin DOMAIN sheet.sharedStringMap
    /\ Len(sheet.rows) > 0

\* The entry of the given name, if the archive has exactly one.
EntriesNamed(name) == { n \in 1..Len(zip) : zip[n].name = name }

\* C4: after SaveToWriter returned nil, every String cell of the sheet was
\* emitted with an index i such that entry i of the sequence rendered into
\* xl/sharedStrings.xml is the escaped original value, and the rendered
\* sequence holds each distinct escaped string exactly once.
C4_SavedStringIndexes ==
    (ret.op = "SaveToWriter" /\ ret.res = "nil") =>
        /\ Cardinality(EntriesNamed("xl/sharedStrings.xml")) = 1
        /\ Cardinality(EntriesNamed("xl/worksheets/sheet1.xml")) = 1
        /\ LET sst == zip[CHOOSE n \in EntriesNamed("xl/sharedStrings.xml") : TRUE].data[1].data
               rows == RowsOf(CHOOSE n \in EntriesNamed("xl/worksheets/sheet1.xml") : TRUE)
           IN /\ Len(rows) = Len(origRows)
              /\ NoDuplicates(sst)
              /\ Range(sst) = Range(StringValues(origRows))
              /\ \A n \in 1..Len(origRows) : \A j \in 1..Len(origRows[n]) :
                    origRows[n][j].Type = CellTypeString =>
                        \E i \in 0..(Len(sst) - 1) :
                            /\ rows[n].cells[j].v = Itoa(i)
                            /\ sst[i + 1] = EscapeString(origRows[n][j].Value)

\* A sheet of two rows that each contain "Apple" was saved: one entry.
C4_Witness ==
    /\ ret.op = "SaveToWriter"
    /\ ret.res = "nil"
    /\ Len(origRows) = 2
    /\ \A n \in 1..2 : origRows[n][2] = Cell(CellTypeString, "Apple", 0)
    /\ \E n \in EntriesNamed("xl/sharedStrings.xml") : zip[n].data[1].data = <<"Apple">>

\* The last chunk written to the entry of SheetWriter k.
LastChunk(k) == zip[sws[k].f].data[Len(zip[sws[k].f].data)]

NonEmptyRowWritten(k) ==
    \E n \in 1..Len(RowsOf(sws[k].f)) : RowsOf(sws[k].f)[n].cells # <<>>

\* The footer Close must have written for SheetWriter k when the largest
\* cell count is maxCols.
FooterIs(k, maxCols) ==
    /\ LastChunk(k).tag = "sheetEnd"
    /\ LastChunk(k).dimension
         = "A1:" \o colName(maxCols - 1) \o Itoa(Sum(swHist[k].sizes))
    /\ (LastChunk(k).mergeCells # <<>>) <=> (Len(sws[k].mergeCells) > 0)
    /\ LastChunk(k).last = "</worksheet>"

ClosedWithRows ==
    /\ ret.op = "SheetWriter.Close"
    /\ ret.res = "nil"
    /\ NonEmptyRowWritten(ret.sw)

\* C5 as stated: the dimension ends at the column of the largest cell count
\* of any row passed to WriteRows and at the number of rows written by the
\* WriteRows calls that returned nil.
C5_Orig == ClosedWithRows => FooterIs(ret.sw, swHist[ret.sw].maxPassed)

\* C5 amended: the largest cell count is taken over the rows WriteRows got
\* to: the rows of a call that failed that follow the failing row do not
\* count.
C5_Dimension == ClosedWithRows => FooterIs(ret.sw, swHist[ret.sw].maxSeen)

\* Two rows, three cells in the widest, and a merge range: A1:C2 followed by
\* the mergeCells block.
C5_Witness ==
    /\ ClosedWithRows
    /\ LastChunk(ret.sw).dimension = "A1:C2"
    /\ LastChunk(ret.sw).mergeCells # <<>>

\* The merge ranges of the cells of one row whose Colspan exceeds 1; the row
\* has the one-based number n.
RECURSIVE RowRefs(_, _, _)
RowRefs(r, j, n) ==
    IF j > Len(r) THEN <<>>
    ELSE (IF r[j].Colspan > 1
          THEN <<colName(j - 1) \o Itoa(n) \o ":"
                 \o colName((j - 1) + r[j].Colspan - 1) \o Itoa(n)>>
          ELSE <<>>) \o RowRefs(r, j + 1, n)

\* The merge ranges of a batch written when currentIndex is base.
RECURSIVE BatchRefsFrom(_, _, _)
BatchRefsFrom(rows, i, base) ==
    IF i > Len(rows) THEN <<>>
    ELSE RowRefs(rows[i], 1, base + i) \o BatchRefsFrom(rows, i + 1, base)

MergeCountMatches(s) ==
    \A k \in 1..Len(s) : s[k].mergeCellsCount = Len(s[k].mergeCells)

\* C6: a WriteRows call that returns nil records, for every cell with
\* Colspan k > 1 at position j of the row with absolute index y, the one
\* range colName(j) y+1 : colName(j+k-1) y+1, and nothing for the other
\* cells; a call that fails records a prefix of these; mergeCellsCount is
\* always the number of ranges recorded.
C6_MergeRanges ==
    /\ MergeCountMatches(sws)
    /\ [][ /\ MergeCountMatches(sws')
           /\ ret'.op = "WriteRows" =>
                LET k == ret'.sw
                    refs == BatchRefsFrom(ret'.arg, 1, sws[k].currentIndex)
                IN /\ ret'.res = "nil" =>
                        /\ sws'[k].mergeCells = sws[k].mergeCells \o refs
                        /\ sws'[k].mergeCellsCount = sws[k].mergeCellsCount + Len(refs)
                   /\ \E n \in 0..Len(refs) :
                        sws'[k].mergeCells = sws[k].mergeCells \o SubSeq(refs, 1, n) ]_vars

\* Colspan 3 at column 1 of row 1 was recorded as B2:D2, the only range.
C6_Witness ==
    /\ ret.op = "WriteRows"
    /\ ret.res = "nil"
    /\ sws[ret.sw].mergeCells = <<"B2:D2">>
    /\ sws[ret.sw].mergeCellsCount = 1

HasZeroColspan(rows) ==
    \E i \in 1..Len(rows) : \E j \in 1..Len(rows[i]) : rows[i][j].Colspan = 0

\* C7 as stated: a cell whose Colspan is 0 makes WriteRows panic.
C7_Orig == (ret.op = "WriteRows" /\ HasZeroColspan(ret.arg)) => ret.res = "panic"

\* C7 amended: no colspan makes WriteRows panic (Colspan is unsigned, the
\* check "c.Colspan < 0" is never true).  WriteRows on an open SheetWriter
\* does not panic, and when it returns nil every row of the batch was
\* emitted with all its cells, those with Colspan 0 included.
C7_ZeroColspanEmitted ==
    [][ (ret'.op = "WriteRows" /\ ~sws[ret'.sw].closed) =>
            /\ ret'.res # "panic"
            /\ ret'.res = "nil" =>
                 LET f == sws[ret'.sw].f
                     n == Len(zip[f].data)
                 IN /\ Len(zip'[f].data) = n + Len(ret'.arg)
                    /\ \A i \in 1..Len(ret'.arg) :
                         /\ zip'[f].data[n + i].tag = "row"
                         /\ Len(zip'[f].data[n + i].cells) = Len(ret'.arg[i]) ]_vars

\* A batch with a Colspan 0 cell was written and its row emitted.
C7_Witness ==
    /\ ret.op = "WriteRows"
    /\ ret.res = "nil"
    /\ HasZeroColspan(ret.arg)
    /\ LastChunk(ret.sw).tag = "row"
    /\ Len(LastChunk(ret.sw).cells) > 0

SheetWriterCalls == {"WriteRows", "SheetWriter.WriteHeader", "SheetWriter.Close"}

\* C8: a Close that does not panic sets closed, whatever it returns; closed
\* never becomes false again; every WriteRows, WriteHeader or Close on a
\* closed SheetWriter panics and leaves the archive as it was.
C8_ClosedForever ==
    [][ \A k \in 1..Len(sws) :
          /\ sws[k].closed => sws'[k].closed
          /\ (ret'.op = "SheetWriter.Close" /\ ret'.sw = k /\ ret'.res # "panic")
                => sws'[k].closed
          /\ (sws[k].closed /\ ret'.sw = k /\ ret'.op \in SheetWriterCalls)
                => (ret'.res = "panic" /\ zip' = zip) ]_vars

\* WriteRows panicked on a SheetWriter whose Close had returned an error
\* (the footer is not in the entry).
C8_Witness ==
    /\ ret.op = "WriteRows"
    /\ ret.res = "panic"
    /\ sws[ret.sw].closed
    /\ LastChunk(ret.sw).tag # "sheetEnd"

\* C9 as stated: once WorkbookWriter.Close has been called, whatever it
\* returned, a further Close and a further NewSheetWriter panic, and closed
\* never goes back to false.
C9_Orig ==
    [][ /\ (closeCalled /\ ret'.op \in {"WorkbookWriter.Close", "NewSheetWriter"})
              => ret'.res = "panic"
        /\ ww.closed => ww'.closed ]_vars

OpenWriters(s) == { k \in 1..Len(s) : ~s[k].closed }

\* C10: at most one SheetWriter of the workbook is open; when NewSheetWriter
\* creates a SheetWriter every earlier one is closed; the SheetWriter before
\* is closed also when its close returns an error; after a
\* WorkbookWriter.Close that returned nil none is open.
C10_OneOpen ==
    /\ Cardinality(OpenWriters(sws)) <= 1
    /\ [][ /\ Cardinality(OpenWriters(sws')) <= 1
           /\ (ret'.op = "NewSheetWriter" /\ Len(sws') > Len(sws))
                 => \A k \in 1..Len(sws) : sws'[k].closed
           /\ (ret'.op = "NewSheetWriter" /\ ret'.res = "error" /\ ww.sheetWriter # 0)
                 => sws'[ww.sheetWriter].closed
           /\ (ret'.op = "WorkbookWriter.Close" /\ ret'.res = "nil")
                 => OpenWriters(sws') = {} ]_vars

\* NewSheetWriter returned the error of the close of the first SheetWriter:
\* no second one was created and the first is closed.
C10_Witness ==
    /\ ret.op = "NewSheetWriter"
    /\ ret.res = "error"
    /\ ret.sw = 0
    /\ Len(sws) = 1
    /\ sws[1].closed

IsFooter(chunk) == chunk.tag = "sheetEnd"

\* The footers written to the entry of SheetWriter k.
Footers(w, k) == Len(SelectSeq(w[sws[k].f].data, IsFooter))

WorkbookCloses == {"WorkbookWriter.Close", "NewSheetWriter"}

\* C11 as stated: when the caller has just closed the workbook's current
\* SheetWriter with SheetWriter.Close, WorkbookWriter.Close and
\* NewSheetWriter do not panic and leave exactly one footer in its entry.
C11_Orig ==
    [][ ( /\ ret.op = "SheetWriter.Close"
          /\ ret.res = "nil"
          /\ ret.sw = ww.sheetWriter
          /\ ret'.op \in WorkbookCloses )
        => ( /\ ret'.res # "panic"
             /\ Footers(zip', ret.sw) = 1 ) ]_vars

IsSheetEntry(e) == Len(e.name) > 14 /\ SubSeq(e.name, 1, 14) = "xl/worksheets/"

\* The sheet entries of the archive z, in creation order.
SheetEntries(z) == SelectSeq(z, IsSheetEntry)

\* The k-th sheet entry is sheet{k}.xml and has a name in sheetNames.
SheetEntriesNumbered ==
    LET se == SheetEntries(zip)
    IN  /\ Len(ww.sheetNames) = Len(se)
        /\ \A k \in 1..Len(se) :
             /\ se[k].name = "xl/worksheets/sheet" \o Itoa(k) \o ".xml"
             /\ \A j \in 1..(k - 1) : se[j].name # se[k].name

IsManifest(e) == e.name = "xl/workbook.xml"

\* C12: the k-th NewSheetWriter call that creates an entry creates
\* xl/worksheets/sheet{k}.xml and appends the title of its sheet to
\* sheetNames; no other call changes sheetNames, so sheetNames is the titles
\* of the sheets opened in open order and its k-th name belongs to
\* sheet{k}.xml; the entry names are distinct; the workbook manifest written
\* by Close is rendered from that list.  Entries keep their names and a
\* step that creates no entry leaves sheetNames alone, so the numbering is
\* evaluated on the steps that create entries.
C12_SheetNumbering ==
    /\ SheetEntriesNumbered
    /\ [][ /\ Len(zip') >= Len(zip)
           /\ \A n \in 1..Len(zip) : zip'[n].name = zip[n].name
           /\ IF Len(zip') = Len(zip)
              THEN ww'.sheetNames = ww.sheetNames
              ELSE LET created == Len(SheetEntries(zip')) - Len(SheetEntries(zip))
                   IN  /\ SheetEntriesNumbered'
                       /\ IF ret'.op = "NewSheetWriter" /\ created > 0
                          THEN /\ ww'.sheetNames =
                                    Append(ww.sheetNames, ret'.arg[1])
                               /\ created = 1
                          ELSE ww'.sheetNames = ww.sheetNames
           /\ ret'.op = "WorkbookWriter.Close" =>
                \A n \in (Len(zip) + 1)..Len(zip') :
                   (IsManifest(zip'[n]) /\ zip'[n].data # <<>>)
                      => zip'[n].data[1].data = ww.sheetNames ]_vars

\* Two sheets with different titles were opened and Close wrote the
\* manifest from their titles in open order.
C12_Witness ==
    /\ ret.op = "WorkbookWriter.Close"
    /\ ret.res = "nil"
    /\ ww.sheetNames = <<"MySheet", "Data">>
    /\ Len(SheetEntries(zip)) = 2
    /\ \E n \in 1..Len(zip) : IsManifest(zip[n]) /\ zip[n].data # <<>>
                              /\ zip[n].data[1].data = <<"MySheet", "Data">>

FixedPartNames == { HeaderParts(ww)[n].name : n \in 1..Len(HeaderParts(ww)) }

\* C13 as stated: each fixed part of the workbook is created at most once
\* in the archive, and a WriteHeader that returned nil has set
\* headerWritten (so that a second WriteHeader panics).
C13_Orig ==
    /\ \A name \in FixedPartNames : Cardinality(EntriesNamed(name)) <= 1
    /\ (ret.op = "WorkbookWriter.WriteHeader" /\ ret.res = "nil") => ww.headerWritten

\* The sheet most recently passed to a NewSheetWriter call that created an
\* entry: the sheets of SheetPool have different titles.
LastSheet == CHOOSE s \in SheetPool : s.Title = ww.sheetNames[Len(ww.sheetNames)]

IsStringsPart(e) == e.name = "xl/sharedStrings.xml"

\* C14 as stated: without the caller assigning WorkbookWriter.SharedStrings,
\* the shared-strings part written by a Close that returned nil is rendered
\* from the shared-string sequence of the sheet most recently passed to
\* NewSheetWriter.
C14_Orig ==
    [][ (ret'.op = "WorkbookWriter.Close" /\ ret'.res = "nil" /\ ww.sheetNames # <<>>)
        => \A n \in (Len(zip) + 1)..Len(zip') :
              IsStringsPart(zip'[n])
                 => zip'[n].data = <<[tag |-> "TemplateStringLookups",
                                      data |-> SharedStrings(LastSheet)]>> ]_vars

\* The row AppendRow stored last.
LastRow == sheet.rows[Len(sheet.rows)]

AppendedDatetime(n) ==
    /\ ret.op = "AppendRow"
    /\ ret.res = "nil"
    /\ ret.arg[n].Type = CellTypeDatetime
    /\ ParseOk(ret.arg[n].Value)

\* C15 as stated: a Datetime cell whose value parses as RFC-3339 is stored
\* by AppendRow as the OADate of the parsed time.
C15_Orig ==
    \A n \in 1..Len(ret.arg) :
        AppendedDatetime(n) => LastRow[n].Value = OADate(ParseRFC3339(ret.arg[n].Value))

SheetEntry == CHOOSE n \in EntriesNamed("xl/worksheets/sheet1.xml") : TRUE

\* C15 amended: AppendRow stores a Datetime cell with the caller's timestamp
\* text unchanged; the value is resolved when the rows are written: after a
\* SaveToWriter that returned nil every Datetime cell was emitted as the
\* OADate of its parsed text.
C15_DatetimeResolvedOnSave ==
    /\ \A n \in 1..Len(ret.arg) :
         AppendedDatetime(n) => /\ LastRow[n].Type = CellTypeDatetime
                                /\ LastRow[n].Value = ret.arg[n].Value
    /\ (ret.op = "SaveToWriter" /\ ret.res = "nil") =>
         \A i \in 1..Len(origRows) : \A j \in 1..Len(origRows[i]) :
            origRows[i][j].Type = CellTypeDatetime =>
               /\ sheet.rows[i][j].Value = origRows[i][j].Value
               /\ RowsOf(SheetEntry)[i].cells[j].v
                     = OADate(ParseRFC3339(origRows[i][j].Value))

\* The epoch timestamp was appended and is stored as text.
C15_Witness ==
    /\ AppendedDatetime(2)
    /\ LastRow[2].Value = "1970-01-01T00:00:00Z"

\* A sheet holding the epoch timestamp was saved and the cell emitted as
\* 25569.
C15_SavedWitness ==
    /\ ret.op = "SaveToWriter"
    /\ ret.res = "nil"
    /\ \E i \in 1..Len(origRows) :
         /\ origRows[i][2] = Cell(CellTypeDatetime, "1970-01-01T00:00:00Z", 0)
         /\ RowsOf(SheetEntry)[i].cells[2].v = "25569"

\* C16 as stated: AppendRow stores a Number or InlineString cell with the
\* type, the value and the colspan of the caller's cell, and a sheet saved
\* with SaveToWriter has recorded the merge ranges WriteRows records for the
\* caller's rows.
C16_Orig ==
    /\ (ret.op = "AppendRow" /\ ret.res = "nil") =>
         \A n \in 1..Len(ret.arg) :
            ret.arg[n].Type \in {CellTypeNumber, CellTypeInlineString}
               => LastRow[n] = ret.arg[n]
    /\ (ret.op = "SaveToWriter" /\ ret.res = "nil") =>
         sws[1].mergeCells = BatchRefsFrom(origRows, 1, 0)

IsBadDatetime(c) == c.Type = CellTypeDatetime /\ ~ParseOk(c.Value)

HasBadDatetime(r) == \E j \in 1..Len(r) : IsBadDatetime(r[j])

\* The index of the first row from row i on with a Datetime cell that does
\* not parse, 0 if there is none.
RECURSIVE FirstBad(_, _)
FirstBad(rows, i) ==
    IF i > Len(rows) THEN 0
    ELSE IF HasBadDatetime(rows[i]) THEN i ELSE FirstBad(rows, i + 1)

\* C17: AppendRow returns nil for a row that holds a Datetime cell whose
\* value does not parse and stores the value unchanged; WriteRows given the
\* stored rows (by SaveToWriter) does not return nil and emits no row from
\* the first such row on, and when the sink accepts every write it returns
\* the parse error after emitting the rows before that row.
C17_ParseAsymmetry ==
    [][ /\ (ret'.op = "AppendRow" /\ Len(ret'.arg) = Len(sheet.columns)) =>
              /\ ret'.res = "nil"
              /\ \A n \in 1..Len(ret'.arg) :
                    IsBadDatetime(ret'.arg[n]) =>
                       /\ sheet'.rows[Len(sheet'.rows)][n].Type = CellTypeDatetime
                       /\ sheet'.rows[Len(sheet'.rows)][n].Value = ret'.arg[n].Value
        /\ (ret'.op = "SaveToWriter" /\ FirstBad(sheet.rows, 1) > 0) =>
              /\ ret'.res # "nil"
              /\ \A n \in 1..Len(zip') :
                    IsSheetEntry(zip'[n]) =>
                       /\ Len(SelectSeq(zip'[n].data, IsRow)) < FirstBad(sheet.rows, 1)
                       /\ faults' = faults =>
                            /\ ret'.res = "error"
                            /\ Len(SelectSeq(zip'[n].data, IsRow))
                                  = FirstBad(sheet.rows, 1) - 1 ]_vars

\* A sheet whose second row holds "yesterday" as a Datetime was appended to
\* without error; saving it returned the error after the first row.
C17_Witness ==
    /\ ret.op = "SaveToWriter"
    /\ ret.res = "error"
    /\ faults = 0
    /\ FirstBad(sheet.rows, 1) = 2
    /\ sheet.rows[2][2] = Cell(CellTypeDatetime, "yesterday", 0)
    /\ Len(RowsOf(SheetEntry)) = 1

IsColumnName(s) ==
    /\ Len(s) >= 1
    /\ \A i \in 1..Len(s) : \E d \in 1..26 : SubSeq(s, i, i) = SubSeq(Letters, d, d)

LetterValue(c) == CHOOSE d \in 1..26 : SubSeq(Letters, d, d) = c

\* The number a column name stands for in bijective base 26 (digits A = 1
\* to Z = 26), minus one: the zero-based column.
RECURSIVE DecodeName(_)
DecodeName(s) ==
    IF Len(s) = 0 THEN 0
    ELSE DecodeName(SubSeq(s, 1, Len(s) - 1)) * 26 + LetterValue(SubSeq(s, Len(s), Len(s)))

DecodeColumn(s) == DecodeName(s) - 1

\* The address CellIndex returned, as the caller prints it.
Address(res) == res[1] \o Itoa(res[2])

\* C18: for every column and row of the range, CellIndex returns a name
\* made of the letters A-Z whose bijective base-26 value is the column,
\* followed by row + 1: decoding the name gives the column back, so two
\* columns never share a name; (0,0) is A1, (2,2) is C3, (26,45) is AA46,
\* (2600,100000) is CVA100001, 25 is Z.
C18_CellIndex ==
    ret.op = "CellIndex" =>
        /\ IsColumnName(ret.res[1])
        /\ DecodeColumn(ret.res[1]) = ret.arg[1]
        /\ ret.res[2] = ret.arg[2] + 1
        /\ ret.arg = <<0, 0>> => Address(ret.res) = "A1"
        /\ ret.arg = <<2, 2>> => Address(ret.res) = "C3"
        /\ ret.arg = <<26, 45>> => Address(ret.res) = "AA46"
        /\ ret.arg = <<2600, 100000>> => Address(ret.res) = "CVA100001"
        /\ ret.arg[1] = 25 => ret.res[1] = "Z"

\* CellIndex was applied to (2600, 100000) and to the first column with a
\* three-letter name.
C18_Witness ==
    /\ ret.op = "CellIndex"
    /\ ret.arg = <<2600, 100000>>
    /\ Address(ret.res) = "CVA100001"

C18_WitnessThreeLetters ==
    /\ ret.op = "CellIndex"
    /\ ret.arg[1] = 702
    /\ ret.res[1] = "AAA"

IsIntegerForm(s) == \A i \in 1..Len(s) : SubSeq(s, i, i) # "."

\* s is a decimal with exactly six digits after the point.
IsSixDecimals(s) ==
    /\ Len(s) >= 8
    /\ SubSeq(s, Len(s) - 6, Len(s) - 6) = "."
    /\ IsIntegerForm(SubSeq(s, 1, Len(s) - 7))
    /\ IsIntegerForm(SubSeq(s, Len(s) - 5, Len(s)))

\* C19 as stated: OADate prints the days from 1899-12-30T00:00:00 UTC to d
\* as an integer when the time of day of d is midnight and with six
\* decimals otherwise, and the integer form is produced only when the day
\* count is whole; 1970-01-01T00:00:00Z gives 25569, 1970-01-01T12:20:00Z
\* gives 25569.513889, 2014-12-20T00:00:00Z gives 41993.
C19_Orig ==
    ret.op = "OADate" =>
        LET d == ret.arg[1] IN
        /\ IsIntegerForm(ret.res) \/ IsSixDecimals(ret.res)
        /\ IsIntegerForm(ret.res) => (d.sec = 0 /\ ret.res = Itoa(d.day))
        /\ d = ParseRFC3339("1970-01-01T00:00:00Z") => ret.res = "25569"
        /\ d = ParseRFC3339("1970-01-01T12:20:00Z") => ret.res = "25569.513889"
        /\ d = ParseRFC3339("2014-12-20T00:00:00Z") => ret.res = "41993"

\* Every entry but the most recently created one is closed.
OnlyLastEntryOpen(z) == \A n \in 1..Len(z) : n < Len(z) => z[n].closed

CreatingCalls == {"NewSheetWriter", "WorkbookWriter.WriteHeader", "WorkbookWriter.Close"}

\* The step is a call during which the sink failed.
SinkFailed == faults' = faults + 1

\* The step is a NewSheetWriter call whose Create failed: the SheetWriter it
\* built holds the creation error.
SheetCreateFailed ==
    /\ ret'.op = "NewSheetWriter"
    /\ Len(sws') = Len(sws) + 1
    /\ sws'[Len(sws')].err

\* C21 (as stated): a call that creates archive entries and meets a failure
\* of the archive returns an error to its caller; in particular
\* NewSheetWriter returns an error when the creation of the sheet entry
\* failed, and no call ends in a panic because of a failure of the archive.
C21_Orig ==
    [][ /\ (SinkFailed /\ ret'.op \in CreatingCalls) => ret'.res = "error"
        /\ SheetCreateFailed => ret'.res = "error" ]_vars

(***************************************************************************)
(* C22: row numbers and merge ranges over the whole life of a SheetWriter. *)
(***************************************************************************)
\* strconv.ParseUint of a decimal numeral.
DigitValue(c) == CHOOSE d \in 0..9 : SubSeq(Digits, d + 1, d + 1) = c

RECURSIVE Atoi(_)
Atoi(s) ==
    IF Len(s) = 0 THEN 0
    ELSE 10 * Atoi(SubSeq(s, 1, Len(s) - 1)) + DigitValue(SubSeq(s, Len(s), Len(s)))

\* The r attributes of the rows in q are strictly increasing.
RowsIncreasing(q) ==
    \A m, n \in 1..Len(q) : m < n => Atoi(q[m].r) < Atoi(q[n].r)

\* The merge range ref starts at a cell of a row in q.
RefersToEmitted(ref, q) ==
    \E n \in 1..Len(q) : \E j \in 1..Len(q[n].cells) :
        LET a == q[n].cells[j].r
        IN Len(ref) > Len(a) /\ SubSeq(ref, 1, Len(a) + 1) = a \o ":"

\* C22 (as stated), first half: the rows emitted to the entry of a
\* SheetWriter carry strictly increasing r attributes, whatever the WriteRows
\* calls returned.
C22_RowsIncreasing == \A k \in Held : RowsIncreasing(RowsOf(sws[k].f))

\* C22 (as stated), second half: every merge range a SheetWriter has
\* recorded starts at a cell of a row that was emitted to its entry.
C22_MergesEmitted ==
    \A k \in Held : \A m \in 1..Len(sws[k].mergeCells) :
        RefersToEmitted(sws[k].mergeCells[m], RowsOf(sws[k].f))

\* C22 (as stated): within the entry of one sheet the r attributes of the
\* emitted rows are strictly increasing over the whole life of the
\* SheetWriter, also after a WriteRows call that failed part-way, and every
\* recorded merge range refers to a row that was emitted.  It is stated for
\* the runs in which the sink accepted everything, where the calls that
\* fail are those given a Datetime value that does not parse.
C22_Orig == faults = 0 => (C22_RowsIncreasing /\ C22_MergesEmitted)

(***************************************************************************)
(* C23: the dimension reference of a sheet without cells.                  *)
(***************************************************************************)
IsNumeral(s) ==
    /\ Len(s) >= 1
    /\ \A i \in 1..Len(s) : \E d \in 1..10 : SubSeq(s, i, i) = SubSeq(Digits, d, d)

\* a is a cell address: at least one column letter followed by a row number
\* of at least 1.
IsCellAddress(a) ==
    \E i \in 1..(Len(a) - 1) :
        /\ IsColumnName(SubSeq(a, 1, i))
        /\ IsNumeral(SubSeq(a, i + 1, Len(a)))
        /\ Atoi(SubSeq(a, i + 1, Len(a))) >= 1

\* The dimension reference d is "A1:" followed by a cell address.
IsDimension(d) ==
    /\ Len(d) > 3
    /\ SubSeq(d, 1, 3) = "A1:"
    /\ IsCellAddress(SubSeq(d, 4, Len(d)))

\* SheetWriter.Close returned nil on a SheetWriter to which no row, or only
\* rows with zero cells, was written.
ClosedWithoutCells ==
    /\ ret.op = "SheetWriter.Close"
    /\ ret.res = "nil"
    /\ ~NonEmptyRowWritten(ret.sw)

\* C23 (as stated): closing a SheetWriter to which no row, or only rows with
\* zero cells, was written emits a well-formed dimension reference, whose
\* end address is at least one column letter followed by a row number of at
\* least 1.
C23_Orig ==
    ClosedWithoutCells =>
        /\ LastChunk(ret.sw).tag = "sheetEnd"
        /\ IsDimension(LastChunk(ret.sw).dimension)

====
